---- MODULE Spec2Model ----
(***************************************************************************)
(* ARM7TDMI instruction decoder (arm7tdmi/src/arm/arm_isa.rs).             *)
(*                                                                         *)
(* The decoder is a pure mapping from (raw word, address) to a descriptor  *)
(* or an error, followed by pure field accessors on the descriptor.  The   *)
(* model draws the inputs in Init, applies ArmInstruction::try_from in one *)
(* action and each accessor in one action; `out` holds the value the last  *)
(* call returned.                                                          *)
(***************************************************************************)
EXTENDS Integers, Sequences, FiniteSets, TLC

VARIABLES raw, addr, result, out

vars == <<raw, addr, result, out>>

----------------------------------------------------------------------------
(* u32 / i32 values                                                        *)
(*                                                                         *)
(* A u32 is held as the set of the positions of its 1 bits (bit 0 = least  *)
(* significant), so that every width is exact; small values that the code  *)
(* casts or does arithmetic on are converted to numbers with ToNat.          *)

Pow2(n) == 2 ^ n

RECURSIVE NatUpTo(_, _)
NatUpTo(v, n) ==
    IF n < 0 THEN 0
    ELSE (IF n \in v THEN Pow2(n) ELSE 0) + NatUpTo(v, n - 1)

\* the number a word with bit 31 clear denotes (as usize, as u8, as u32)
ToNat(v) == NatUpTo(v, 30)

\* the word of a number in 0 .. 2^31 - 1
Bits(n) == {i \in 0..30 : (n \div Pow2(i)) % 2 = 1}

\* v as i32: the 32 bits read as two's complement
AsI32(v) == IF 31 \in v THEN (NatUpTo(v, 30) - Pow2(30)) - Pow2(30) ELSE NatUpTo(v, 30)

\* x as u32, for an i32 x: the inverse reinterpretation
AsU32(x) == IF x < 0 THEN Bits((x + Pow2(30)) + Pow2(30)) \cup {31} ELSE Bits(x)

\* u32 << n (bits shifted past bit 31 are dropped)
Shl32(v, n) == {i + n : i \in {j \in v : j + n < 32}}

\* i32 >> n (arithmetic: rounds towards minus infinity)
Sar32(x, n) == x \div Pow2(n)

\* i32 << n
ShlI32(x, n) == AsI32(Shl32(AsU32(x), n))

MaxI32 == (Pow2(30) - 1) + Pow2(30)

\* i32 + i32 for b >= 0: the sum, and whether it left the i32 range
AddI32(a, b) ==
    IF a > MaxI32 - b
    THEN [overflow |-> TRUE,  val |-> ((a - Pow2(30)) - Pow2(30)) + (b - Pow2(30)) - Pow2(30)]
    ELSE [overflow |-> FALSE, val |-> a + b]

\* BitIndex::bit
Bit(v, i) == i \in v

\* BitIndex::bit_range(lo..hi)
BitRange(v, lo, hi) == {i - lo : i \in {j \in v : lo <= j /\ j < hi}}

\* a & b
BitAnd(a, b) == a \cap b

\* u32::rotate_right
RotateRight(v, n) == {(i + 32 - (n % 32)) % 32 : i \in v}

\* 32-bit literal from its eight hexadecimal digits, most significant first
Hex(d) ==
    {4 * (8 - k) + j : k \in 1..8, j \in 0..3} \cap
    {i \in 0..31 : (d[8 - (i \div 4)] \div Pow2(i % 4)) % 2 = 1}

----------------------------------------------------------------------------
(* enums                                                                   *)

\* ArmCond with the discriminants of two variants exchanged
ArmCond_Swapped ==
    [Equal |-> 0, NotEqual |-> 1, UnsignedHigherOrSame |-> 2, UnsignedLower |-> 3,
     Negative |-> 4, PositiveOrZero |-> 5, Overflow |-> 6, NoOverflow |-> 7,
     UnsignedHigher |-> 8, UnsignedLowerOrSame |-> 9, GreaterOrEqual |-> 10,
     LessThan |-> 11, GreaterThan |-> 13, LessThanOrEqual |-> 12, Always |-> 14]

\* enum ArmCond: discriminant of each variant
ArmCond ==
    [Equal |-> 0, NotEqual |-> 1, UnsignedHigherOrSame |-> 2, UnsignedLower |-> 3,
     Negative |-> 4, PositiveOrZero |-> 5, Overflow |-> 6, NoOverflow |-> 7,
     UnsignedHigher |-> 8, UnsignedLowerOrSame |-> 9, GreaterOrEqual |-> 10,
     LessThan |-> 11, GreaterThan |-> 12, LessThanOrEqual |-> 13, Always |-> 14]

\* enum ArmInstructionFormat
ArmInstructionFormat ==
    {"BX", "B_BL", "MUL_MLA", "MULL_MLAL", "LDR_STR", "LDR_STR_HS_REG",
     "LDR_STR_HS_IMM", "DP", "LDM_STM", "SWP", "MRS", "MSR_REG", "MSR_FLAGS"}

\* enum ArmOpCode: discriminant of each variant
ArmOpCode ==
    [AND |-> 0, EOR |-> 1, SUB |-> 2, RSB |-> 3, ADD |-> 4, ADC |-> 5,
     SBC |-> 6, RSC |-> 7, TST |-> 8, TEQ |-> 9, CMP |-> 10, CMN |-> 11,
     ORR |-> 12, MOV |-> 13, BIC |-> 14, MVN |-> 15]

\* ArmShiftType without its last variant
ArmShiftType_NoROR == [LSL |-> 0, LSR |-> 1, ASR |-> 2]

\* enum ArmShiftType: discriminant of each variant
ArmShiftType == [LSL |-> 0, LSR |-> 1, ASR |-> 2, ROR |-> 3]

None == "None"

\* #[derive(Primitive)] from_u8 / from_u32: the variant with that discriminant
FromPrimitive(enum, n) ==
    IF \E v \in DOMAIN enum : enum[v] = n
    THEN CHOOSE v \in DOMAIN enum : enum[v] = n
    ELSE None

----------------------------------------------------------------------------
(* ArmInstruction::try_from                                                *)

\* the mask (M_) and pattern (P_) literals of the chain, in source order
M_BX == Hex(<<0, 15, 15, 15, 15, 15, 15, 0>>)  \* 0x0fff_fff0
P_BX == Hex(<<0, 1, 2, 15, 15, 15, 1, 0>>)  \* 0x012f_ff10
M_B_BL == Hex(<<0, 14, 0, 0, 0, 0, 0, 0>>)  \* 0x0e00_0000
P_B_BL == Hex(<<0, 10, 0, 0, 0, 0, 0, 0>>)  \* 0x0a00_0000
M_MUL_MLA == Hex(<<0, 15, 12, 0, 0, 0, 15, 0>>)  \* 0x0fc0_00f0
P_MUL_MLA == Hex(<<0, 0, 0, 0, 0, 0, 9, 0>>)  \* 0x0000_0090
M_MULL_MLAL == Hex(<<0, 15, 8, 0, 0, 0, 15, 0>>)  \* 0x0f80_00f0
P_MULL_MLAL == Hex(<<0, 0, 8, 0, 0, 0, 9, 0>>)  \* 0x0080_0090
M_LDR_STR == Hex(<<0, 12, 0, 0, 0, 0, 0, 0>>)  \* 0x0c00_0000
P_LDR_STR == Hex(<<0, 4, 0, 0, 0, 0, 0, 0>>)  \* 0x0400_0000
M_LDR_STR_HS_REG_Typo == Hex(<<0, 14, 4, 0, 0, 0, 9, 0>>)
M_LDR_STR_HS_REG == Hex(<<0, 14, 4, 0, 0, 15, 9, 0>>)  \* 0x0e40_0F90
P_LDR_STR_HS_REG == Hex(<<0, 0, 0, 0, 0, 0, 9, 0>>)  \* 0x0000_0090
M_LDR_STR_HS_IMM == Hex(<<0, 14, 4, 0, 0, 0, 9, 0>>)  \* 0x0e40_0090
P_LDR_STR_HS_IMM == Hex(<<0, 0, 4, 0, 0, 0, 9, 0>>)  \* 0x0040_0090
M_LDM_STM == Hex(<<0, 14, 0, 0, 0, 0, 0, 0>>)  \* 0x0e00_0000
P_LDM_STM == Hex(<<0, 8, 0, 0, 0, 0, 0, 0>>)  \* 0x0800_0000
M_SWP == Hex(<<0, 15, 11, 0, 0, 15, 15, 0>>)  \* 0x0fb0_0ff0
P_SWP == Hex(<<0, 1, 0, 0, 0, 0, 9, 0>>)  \* 0x0100_0090
M_MRS == Hex(<<0, 15, 11, 15, 0, 15, 15, 15>>)  \* 0x0fbf_0fff
P_MRS == Hex(<<0, 1, 0, 15, 0, 0, 0, 0>>)  \* 0x010f_0000
M_MSR_REG == Hex(<<0, 15, 11, 15, 15, 15, 15, 0>>)  \* 0x0fbf_fff0
P_MSR_REG == Hex(<<0, 1, 2, 9, 15, 0, 0, 0>>)  \* 0x0129_f000
M_MSR_FLAGS == Hex(<<0, 13, 11, 15, 15, 0, 0, 0>>)  \* 0x0dbf_f000
P_MSR_FLAGS == Hex(<<0, 1, 2, 8, 15, 0, 0, 0>>)  \* 0x0128_f000
M_SWP2 == Hex(<<0, 15, 11, 0, 0, 15, 15, 0>>)  \* 0x0fb0_0ff0
P_SWP2 == Hex(<<0, 1, 0, 0, 0, 0, 9, 0>>)  \* 0x0100_0090
M_DP_Typo == Hex(<<0, 14, 0, 0, 0, 0, 0, 0>>)
M_DP == Hex(<<0, 12, 0, 0, 0, 0, 0, 0>>)  \* 0x0c00_0000
P_DP == Hex(<<0, 0, 0, 0, 0, 0, 0, 0>>)  \* 0x0000_0000

Ok(v) == [tag |-> "Ok", value |-> v]

Err(kind, n) == [tag |-> "Err", kind |-> kind, n |-> n]

\* the if / else-if chain selecting the format
Classify(w) ==
    IF      BitAnd(M_BX, w) = P_BX THEN Ok("BX")
    ELSE IF BitAnd(M_B_BL, w) = P_B_BL THEN Ok("B_BL")
    ELSE IF BitAnd(M_MUL_MLA, w) = P_MUL_MLA THEN Ok("MUL_MLA")
    ELSE IF BitAnd(M_MULL_MLAL, w) = P_MULL_MLAL THEN Ok("MULL_MLAL")
    ELSE IF BitAnd(M_LDR_STR, w) = P_LDR_STR THEN Ok("LDR_STR")
    ELSE IF BitAnd(M_LDR_STR_HS_REG, w) = P_LDR_STR_HS_REG THEN Ok("LDR_STR_HS_REG")
    ELSE IF BitAnd(M_LDR_STR_HS_IMM, w) = P_LDR_STR_HS_IMM THEN Ok("LDR_STR_HS_IMM")
    ELSE IF BitAnd(M_LDM_STM, w) = P_LDM_STM THEN Ok("LDM_STM")
    ELSE IF BitAnd(M_SWP, w) = P_SWP THEN Ok("SWP")
    ELSE IF BitAnd(M_MRS, w) = P_MRS THEN Ok("MRS")
    ELSE IF BitAnd(M_MSR_REG, w) = P_MSR_REG THEN Ok("MSR_REG")
    ELSE IF BitAnd(M_MSR_FLAGS, w) = P_MSR_FLAGS THEN Ok("MSR_FLAGS")
    ELSE IF BitAnd(M_SWP2, w) = P_SWP2 THEN Ok("SWP")
    ELSE IF BitAnd(M_DP, w) = P_DP THEN Ok("DP")
    ELSE Err("UnknownInstructionFormat", w)

\* the condition field, or the error the `?` returns
DecodeCond(w) ==
    LET cond_code == ToNat(BitRange(w, 28, 32))
        cond      == FromPrimitive(ArmCond, cond_code)
    IN  IF cond # None THEN Ok(cond)
        ELSE Err("UndefinedConditionCode", cond_code)

\* try_from classifying the format before it checks the condition
try_from_FormatFirst(w, a) ==
    LET fmt == Classify(w)
    IN  IF fmt.tag = "Err" THEN fmt
        ELSE LET cond == DecodeCond(w)
             IN  IF cond.tag = "Err" THEN cond
                 ELSE Ok([cond |-> cond.value, fmt |-> fmt.value,
                          raw |-> w, pc |-> a])

try_from(w, a) ==
    LET cond == DecodeCond(w)
    IN  IF cond.tag = "Err" THEN cond
        ELSE LET fmt == Classify(w)
             IN  IF fmt.tag = "Err" THEN fmt
                 ELSE Ok([cond |-> cond.value, fmt |-> fmt.value,
                          raw |-> w, pc |-> a])

----------------------------------------------------------------------------
(* ArmShift, ArmInstructionShiftValue                                      *)

ImmediateShift(amount, typ) == [shift |-> "ImmediateShift", amount |-> amount, typ |-> typ]

RegisterShift(rs, typ) == [shift |-> "RegisterShift", rs |-> rs, typ |-> typ]

ImmediateValue(ofs) == [kind |-> "ImmediateValue", ofs |-> ofs]

RotatedImmediate(immediate, rotate) ==
    [kind |-> "RotatedImmediate", immediate |-> immediate, rotate |-> rotate]

ShiftedRegister(reg, shift) == [kind |-> "ShiftedRegister", reg |-> reg, shift |-> shift]

\* ArmShift::try_from
ArmShift_try_from(v) ==
    LET typ == FromPrimitive(ArmShiftType, ToNat(BitRange(v, 5, 7)))
    IN  IF typ = None THEN Err("InvalidShiftType", ToNat(BitRange(v, 5, 7)))
        ELSE IF Bit(v, 4)
             THEN Ok(RegisterShift(ToNat(BitRange(v, 8, 12)), typ))
             ELSE Ok(ImmediateShift(ToNat(BitRange(v, 7, 12)), typ))

Some(x) == [some |-> TRUE, val |-> x]

NoneOption == [some |-> FALSE]

\* ArmInstructionShiftValue::decode_rotated_immediate
decode_rotated_immediate(sv) ==
    IF sv.kind = "RotatedImmediate"
    THEN Some(AsI32(RotateRight(Bits(sv.immediate), sv.rotate)))
    ELSE NoneOption

----------------------------------------------------------------------------
(* field accessors of ArmInstruction                                       *)

\* rn reading the MUL_MLA field for MULL_MLAL too
rn_SameField(self) ==
    CASE self.fmt = "MUL_MLA"   -> ToNat(BitRange(self.raw, 12, 16))
      [] self.fmt = "MULL_MLAL" -> ToNat(BitRange(self.raw, 12, 16))
      [] self.fmt = "BX"        -> ToNat(BitRange(self.raw, 0, 4))
      [] OTHER                  -> ToNat(BitRange(self.raw, 16, 20))

rn(self) ==
    CASE self.fmt = "MUL_MLA"   -> ToNat(BitRange(self.raw, 12, 16))
      [] self.fmt = "MULL_MLAL" -> ToNat(BitRange(self.raw, 8, 12))
      [] self.fmt = "BX"        -> ToNat(BitRange(self.raw, 0, 4))
      [] OTHER                  -> ToNat(BitRange(self.raw, 16, 20))

rd(self) ==
    CASE self.fmt = "MUL_MLA" -> ToNat(BitRange(self.raw, 16, 20))
      [] OTHER                -> ToNat(BitRange(self.raw, 12, 16))

rm(self) == ToNat(BitRange(self.raw, 0, 4))

opcode(self) == FromPrimitive(ArmOpCode, ToNat(BitRange(self.raw, 21, 25)))

\* branch_offset without the cast to i32: the shift right is logical
branch_offset_Logical(self) ==
    AddI32(ShlI32(ToNat(BitRange(Shl32(self.raw, 8), 8, 32)), 2), 8)

branch_offset(self) ==
    AddI32(ShlI32(Sar32(AsI32(Shl32(self.raw, 8)), 8), 2), 8)

\* a call that returned v, and a call that panicked in unwrap()
Returned(v) == [panic |-> FALSE, val |-> v]

Panicked == [panic |-> TRUE]

\* Result::unwrap: the Ok value, or a panic
Unwrap(r) == IF r.tag = "Ok" THEN Returned(r.value) ELSE Panicked

offset(self) ==
    LET ofs == BitRange(self.raw, 0, 12)
    IN  IF Bit(self.raw, 25)
        THEN LET rm_ == BitAnd(ofs, Hex(<<0, 0, 0, 0, 0, 0, 0, 15>>))
                 shift == Unwrap(ArmShift_try_from(ofs))
             IN  IF shift.panic THEN Panicked
                 ELSE Returned(ShiftedRegister(ToNat(rm_), shift.val))
        ELSE Returned(ImmediateValue(ToNat(ofs)))

\* operand2 without the doubling of the rotate field
operand2_RotateNotDoubled(self) ==
    LET op2 == BitRange(self.raw, 0, 12)
    IN  IF Bit(self.raw, 25)
        THEN LET immediate == BitAnd(op2, Hex(<<0, 0, 0, 0, 0, 0, 15, 15>>))
                 rotate    == ToNat(BitRange(op2, 8, 12))
             IN  Returned(RotatedImmediate(ToNat(immediate), rotate))
        ELSE LET reg == BitAnd(op2, Hex(<<0, 0, 0, 0, 0, 0, 0, 15>>))
                 shift == Unwrap(ArmShift_try_from(op2))
             IN  IF shift.panic THEN Panicked
                 ELSE Returned(ShiftedRegister(ToNat(reg), shift.val))

operand2(self) ==
    LET op2 == BitRange(self.raw, 0, 12)
    IN  IF Bit(self.raw, 25)
        THEN LET immediate == BitAnd(op2, Hex(<<0, 0, 0, 0, 0, 0, 15, 15>>))
                 rotate    == 2 * ToNat(BitRange(op2, 8, 12))
             IN  Returned(RotatedImmediate(ToNat(immediate), rotate))
        ELSE LET reg == BitAnd(op2, Hex(<<0, 0, 0, 0, 0, 0, 0, 15>>))
                 shift == Unwrap(ArmShift_try_from(op2))
             IN  IF shift.panic THEN Panicked
                 ELSE Returned(ShiftedRegister(ToNat(reg), shift.val))

RECURSIVE RegisterListFrom(_, _, _)
\* the for loop of register_list from index i on, list being what was pushed so far
RegisterListFrom(list_bits, i, list) ==
    IF i >= 16 THEN list
    ELSE IF BitAnd(list_bits, Shl32({0}, i)) # {}
         THEN RegisterListFrom(list_bits, i + 1, Append(list, i))
         ELSE RegisterListFrom(list_bits, i + 1, list)

\* register_list with a mask one bit short
register_list_ShortMask(self) ==
    LET list_bits == BitAnd(self.raw, Hex(<<0, 0, 0, 0, 7, 15, 15, 15>>))
    IN  RegisterListFrom(list_bits, 0, <<>>)

register_list(self) ==
    LET list_bits == BitAnd(self.raw, Hex(<<0, 0, 0, 0, 15, 15, 15, 15>>))
    IN  RegisterListFrom(list_bits, 0, <<>>)

----------------------------------------------------------------------------
(* inputs                                                                  *)

MaxFlips == 1

Flip(w, i) == IF Bit(w, i) THEN w \ {i} ELSE w \cup {i}

\* one word per rule of the chain and per worked example, over all 16 conditions
Seeds ==
    { Hex(<<14, 1, 2, 15, 15, 15, 1, 0>>),   \* BX r0
      Hex(<<14, 10, 0, 0, 0, 0, 0, 1>>),     \* B, low 24 bits 0x000001
      Hex(<<14, 10, 15, 15, 15, 15, 15, 15>>), \* B, low 24 bits 0xFFFFFF
      Hex(<<1, 11, 8, 0, 0, 0, 0, 0>>),      \* BLNE, most negative offset
      Hex(<<2, 10, 7, 15, 15, 15, 15, 15>>), \* BCS, most positive offset
      Hex(<<0, 0, 0, 1, 2, 3, 9, 4>>),       \* MULEQ
      Hex(<<3, 0, 10, 1, 2, 3, 9, 4>>),      \* UMLALCC
      Hex(<<4, 5, 9, 1, 2, 0, 0, 4>>),       \* LDRMI, immediate offset
      Hex(<<5, 7, 9, 1, 2, 1, 6, 3>>),       \* LDRPL, shifted register offset
      Hex(<<6, 0, 0, 1, 2, 0, 11, 3>>),      \* STRHVS, register offset
      Hex(<<7, 0, 4, 1, 2, 0, 13, 3>>),      \* LDRDVC, immediate offset
      Hex(<<8, 8, 9, 0, 0, 0, 0, 5>>),       \* LDMHI r0, {r0, r2}
      Hex(<<14, 8, 11, 13, 15, 15, 15, 15>>), \* LDM with all 16 registers
      Hex(<<9, 1, 0, 1, 2, 0, 9, 3>>),       \* SWPLS
      Hex(<<10, 1, 4, 1, 2, 0, 9, 3>>),      \* SWPBGE
      Hex(<<11, 1, 0, 15, 1, 0, 0, 0>>),     \* MRSLT
      Hex(<<12, 1, 2, 9, 15, 0, 0, 1>>),     \* MSRGT, register
      Hex(<<13, 3, 2, 8, 15, 0, 15, 15>>),   \* MSRLE, flags from immediate
      Hex(<<14, 3, 10, 0, 0, 0, 0, 1>>),     \* MOV r0, #1
      Hex(<<14, 0, 8, 1, 2, 3, 5, 4>>),      \* ADD, register shifted by register
      Hex(<<14, 1, 10, 0, 1, 15, 14, 2>>),   \* MOV, register rotated by immediate
      Hex(<<14, 3, 14, 0, 1, 1, 15, 15>>),   \* MVN, immediate rotated by 2
      Hex(<<14, 3, 8, 0, 1, 15, 15, 15>>),   \* ORR, immediate rotated by 30
      Hex(<<14, 15, 0, 0, 0, 0, 0, 0>>),     \* SWI
      Hex(<<14, 14, 1, 1, 2, 3, 1, 4>>),     \* MCR
      Hex(<<15, 10, 0, 0, 0, 0, 0, 1>>),     \* condition 15
      Hex(<<15, 15, 15, 15, 15, 15, 15, 15>>),
      Hex(<<0, 0, 0, 0, 0, 0, 0, 0>>) }

RECURSIVE Ball(_, _)
\* the words at most k bit flips away from a word of S
Ball(S, k) ==
    IF k = 0 THEN S
    ELSE LET B == Ball(S, k - 1)
         IN  B \cup {Flip(w, i) : w \in B, i \in 0..31}

Words == Ball(Seeds, MaxFlips)

\* every value of bits 20-27 and of bits 4-7, the bits most rules test
Grid == {Hex(<<14, a, b, 0, 0, 0, c, 0>>) : a \in 0..15, b \in 0..15, c \in 0..15}

Addrs == {Hex(<<0, 8, 0, 0, 0, 0, 0, 0>>), Hex(<<15, 15, 15, 15, 15, 15, 15, 12>>)}

\* the (word, address) pairs try_from is given
Inputs == (Words \X Addrs) \cup (Grid \X {Hex(<<0, 3, 0, 0, 0, 0, 0, 0>>)})

NotCalled == [op |-> "none"]

----------------------------------------------------------------------------
(* the calls                                                               *)

Init ==
    /\ \E in \in Inputs : raw = in[1] /\ addr = in[2]
    /\ result = [tag |-> "NotCalled"]
    /\ out = NotCalled

\* ArmInstruction::try_from((raw, addr))
TryFrom ==
    /\ result.tag = "NotCalled"
    /\ result' = try_from(raw, addr)
    /\ UNCHANGED <<raw, addr, out>>

\* ArmShift::try_from(raw)
ShiftTryFrom ==
    /\ out' = [op |-> "ArmShift::try_from", val |-> ArmShift_try_from(raw)]
    /\ UNCHANGED <<raw, addr, result>>

\* the accessors, each called on the descriptor try_from returned

Rn ==
    /\ result.tag = "Ok"
    /\ out' = [op |-> "rn", val |-> rn(result.value)]
    /\ UNCHANGED <<raw, addr, result>>

Rd ==
    /\ result.tag = "Ok"
    /\ out' = [op |-> "rd", val |-> rd(result.value)]
    /\ UNCHANGED <<raw, addr, result>>

Rm ==
    /\ result.tag = "Ok"
    /\ out' = [op |-> "rm", val |-> rm(result.value)]
    /\ UNCHANGED <<raw, addr, result>>

Opcode ==
    /\ result.tag = "Ok"
    /\ out' = [op |-> "opcode", val |-> opcode(result.value)]
    /\ UNCHANGED <<raw, addr, result>>

BranchOffset ==
    /\ result.tag = "Ok"
    /\ out' = [op |-> "branch_offset", val |-> branch_offset(result.value)]
    /\ UNCHANGED <<raw, addr, result>>

Offset ==
    /\ result.tag = "Ok"
    /\ out' = [op |-> "offset", val |-> offset(result.value)]
    /\ UNCHANGED <<raw, addr, result>>

Operand2 ==
    /\ result.tag = "Ok"
    /\ out' = [op |-> "operand2", val |-> operand2(result.value)]
    /\ UNCHANGED <<raw, addr, result>>

RegisterList ==
    /\ result.tag = "Ok"
    /\ out' = [op |-> "register_list", val |-> register_list(result.value)]
    /\ UNCHANGED <<raw, addr, result>>

\* decode_rotated_immediate called on the value offset() or operand2() returned
DecodeRotatedImmediate ==
    /\ out.op \in {"offset", "operand2"}
    /\ ~out.val.panic
    /\ out' = [op |-> "decode_rotated_immediate", from |-> out.op,
               arg |-> out.val.val, val |-> decode_rotated_immediate(out.val.val)]
    /\ UNCHANGED <<raw, addr, result>>

Next ==
    \/ TryFrom
    \/ ShiftTryFrom
    \/ Rn
    \/ Rd
    \/ Rm
    \/ Opcode
    \/ BranchOffset
    \/ Offset
    \/ Operand2
    \/ RegisterList
    \/ DecodeRotatedImmediate

Spec == Init /\ [][Next]_vars

----------------------------------------------------------------------------
(* properties                                                              *)

\* try_from has returned
Decoded == result.tag # "NotCalled"

RECURSIVE FieldFrom(_, _, _)
\* bits lo .. hi-1 of w as a number, read bit by bit
FieldFrom(w, lo, hi) ==
    IF lo >= hi THEN 0
    ELSE (IF lo \in w THEN 1 ELSE 0) + 2 * FieldFrom(w, lo + 1, hi)

\* bits 28-31 of the word
CondCode == FieldFrom(raw, 28, 32)

IsDescriptor == result.tag = "Ok"

IsUnknownFormat == result.tag = "Err" /\ result.kind = "UnknownInstructionFormat"

IsUndefinedCond == result.tag = "Err" /\ result.kind = "UndefinedConditionCode"

\* the 13 rules of the specification's table, in its order
SpecRules ==
    << [mask |-> Hex(<<0, 15, 15, 15, 15, 15, 15, 0>>),
        pattern |-> Hex(<<0, 1, 2, 15, 15, 15, 1, 0>>), fmt |-> "BX"],
       [mask |-> Hex(<<0, 14, 0, 0, 0, 0, 0, 0>>),
        pattern |-> Hex(<<0, 10, 0, 0, 0, 0, 0, 0>>), fmt |-> "B_BL"],
       [mask |-> Hex(<<0, 15, 12, 0, 0, 0, 15, 0>>),
        pattern |-> Hex(<<0, 0, 0, 0, 0, 0, 9, 0>>), fmt |-> "MUL_MLA"],
       [mask |-> Hex(<<0, 15, 8, 0, 0, 0, 15, 0>>),
        pattern |-> Hex(<<0, 0, 8, 0, 0, 0, 9, 0>>), fmt |-> "MULL_MLAL"],
       [mask |-> Hex(<<0, 12, 0, 0, 0, 0, 0, 0>>),
        pattern |-> Hex(<<0, 4, 0, 0, 0, 0, 0, 0>>), fmt |-> "LDR_STR"],
       [mask |-> Hex(<<0, 14, 4, 0, 0, 15, 9, 0>>),
        pattern |-> Hex(<<0, 0, 0, 0, 0, 0, 9, 0>>), fmt |-> "LDR_STR_HS_REG"],
       [mask |-> Hex(<<0, 14, 4, 0, 0, 0, 9, 0>>),
        pattern |-> Hex(<<0, 0, 4, 0, 0, 0, 9, 0>>), fmt |-> "LDR_STR_HS_IMM"],
       [mask |-> Hex(<<0, 14, 0, 0, 0, 0, 0, 0>>),
        pattern |-> Hex(<<0, 8, 0, 0, 0, 0, 0, 0>>), fmt |-> "LDM_STM"],
       [mask |-> Hex(<<0, 15, 11, 0, 0, 15, 15, 0>>),
        pattern |-> Hex(<<0, 1, 0, 0, 0, 0, 9, 0>>), fmt |-> "SWP"],
       [mask |-> Hex(<<0, 15, 11, 15, 0, 15, 15, 15>>),
        pattern |-> Hex(<<0, 1, 0, 15, 0, 0, 0, 0>>), fmt |-> "MRS"],
       [mask |-> Hex(<<0, 15, 11, 15, 15, 15, 15, 0>>),
        pattern |-> Hex(<<0, 1, 2, 9, 15, 0, 0, 0>>), fmt |-> "MSR_REG"],
       [mask |-> Hex(<<0, 13, 11, 15, 15, 0, 0, 0>>),
        pattern |-> Hex(<<0, 1, 2, 8, 15, 0, 0, 0>>), fmt |-> "MSR_FLAGS"],
       [mask |-> Hex(<<0, 12, 0, 0, 0, 0, 0, 0>>),
        pattern |-> Hex(<<0, 0, 0, 0, 0, 0, 0, 0>>), fmt |-> "DP"] >>

\* w satisfies rule k of the table
Satisfies(w, k) == (w \cap SpecRules[k].mask) = SpecRules[k].pattern

\* the rules of the table that w satisfies
Matching(w) == {k \in 1..Len(SpecRules) : Satisfies(w, k)}

\* the first of them
FirstRule(w) == CHOOSE k \in Matching(w) : \A j \in Matching(w) : k <= j

\* C1: for a word whose condition code is 0-14, try_from returns the format of
\* the first rule of the specification's 13-rule table that the word satisfies
\* (and the classification error when it satisfies none): the chain of 14
\* branches in the code, with its second Single-Data-Swap branch, and the table
\* agree on every input.
C1_ChainAgreesWithTable ==
    (Decoded /\ CondCode <= 14) =>
        IF Matching(raw) = {}
        THEN IsUnknownFormat
        ELSE IsDescriptor /\ result.value.fmt = SpecRules[FirstRule(raw)].fmt

\* C1 witness: a decoded word that satisfies the Single-Data-Swap rule, the rule
\* the code tests twice
C1_Witness ==
    /\ Decoded
    /\ CondCode <= 14
    /\ Satisfies(raw, 9)
    /\ (raw \cap M_SWP2) = P_SWP2

\* C2: each of the 13 formats has a word with condition code 0-14 that
\* satisfies the format's rule and that try_from decodes to that format.
C2_EveryFormatHasAWord ==
    \A k \in 1..Len(SpecRules) :
        \E w \in Words :
            /\ FieldFrom(w, 28, 32) <= 14
            /\ Satisfies(w, k)
            /\ LET r == try_from(w, addr)
               IN  r.tag = "Ok" /\ r.value.fmt = SpecRules[k].fmt

\* (C2, what the code does instead) a word that satisfies the Single-Data-Swap
\* rule satisfies the register-offset or the immediate-offset halfword rule
\* too, which the chain tests first, so no descriptor carries SWP
SwpIsShadowed ==
    /\ (Decoded /\ CondCode <= 14 /\ Satisfies(raw, 9)) =>
           IsDescriptor /\ result.value.fmt \in {"LDR_STR_HS_REG", "LDR_STR_HS_IMM"}
    /\ IsDescriptor => result.value.fmt # "SWP"

\* the names of the conditions in the specification's numeric order
CondNames ==
    << "Equal", "NotEqual", "UnsignedHigherOrSame", "UnsignedLower", "Negative",
       "PositiveOrZero", "Overflow", "NoOverflow", "UnsignedHigher",
       "UnsignedLowerOrSame", "GreaterOrEqual", "LessThan", "GreaterThan",
       "LessThanOrEqual", "Always" >>

ExactlyOneOfDescriptorOrUnknown ==
    (IsDescriptor /\ result.value.fmt \in ArmInstructionFormat) # IsUnknownFormat

\* C4 (as stated): for every word, try_from yields exactly one of a descriptor
\* carrying one format or UnknownInstructionFormat, never both, never neither.
C4_TotalAsStated == Decoded => ExactlyOneOfDescriptorOrUnknown

\* C4 (amended): for every word whose condition code is 0-14, try_from yields
\* exactly one of a descriptor carrying one format or UnknownInstructionFormat;
\* a word whose condition code is 15 yields neither of them but
\* UndefinedConditionCode(15).
C4_TotalForValidCond ==
    Decoded =>
        IF CondCode <= 14
        THEN ExactlyOneOfDescriptorOrUnknown
        ELSE ~IsDescriptor /\ ~IsUnknownFormat /\ IsUndefinedCond /\ result.n = 15

\* C4 witness: a word with a valid condition code was classified and no format
\* was found
C4_Witness ==
    /\ Decoded
    /\ CondCode <= 14
    /\ IsUnknownFormat
    /\ ~IsDescriptor

\* the names of the shift types, by the value of bits 5-6
ShiftNames == << "LSL", "LSR", "ASR", "ROR" >>

\* the names of the 16 operations, by the value of bits 21-24
OpNames ==
    << "AND", "EOR", "SUB", "RSB", "ADD", "ADC", "SBC", "RSC",
       "TST", "TEQ", "CMP", "CMN", "ORR", "MOV", "BIC", "MVN" >>

\* C5: no accessor fails once a descriptor exists: ArmShift::try_from returns a
\* shift of type LSL, LSR, ASR or ROR and never InvalidShiftType, so unwrap()
\* in offset() and operand2() never panics, and opcode() returns a named
\* operation, never None, for a descriptor of any format.
C5_AccessorsNeverFail ==
    /\ out.op = "ArmShift::try_from" =>
           /\ out.val.tag = "Ok"
           /\ out.val.value.typ = ShiftNames[FieldFrom(raw, 5, 7) + 1]
    /\ out.op \in {"offset", "operand2"} => ~out.val.panic
    /\ out.op = "opcode" => out.val = OpNames[FieldFrom(raw, 21, 25) + 1]

\* C5 witness: operand2() went through unwrap() on a word whose shift type is ROR
C5_Witness ==
    /\ out.op = "operand2"
    /\ 25 \notin raw
    /\ FieldFrom(raw, 5, 7) = 3
    /\ ~out.val.panic

\* bits 0-23 of the word as a 24-bit two's-complement integer
Signed24 ==
    LET u == FieldFrom(raw, 0, 24)
    IN  IF u >= Pow2(23) THEN u - Pow2(24) ELSE u

\* C6: branch_offset() is 4 * s + 8 for s the 24-bit two's-complement value of
\* bits 0-23 (so bits 24-31 do not matter), it never overflows an i32, and it
\* is 12 for low 24 bits 0x000001 and 4 for low 24 bits 0xFFFFFF.
C6_BranchOffset ==
    out.op = "branch_offset" =>
        /\ ~out.val.overflow
        /\ out.val.val = 4 * Signed24 + 8
        /\ FieldFrom(raw, 0, 24) = 1 => out.val.val = 12
        /\ FieldFrom(raw, 0, 24) = Pow2(24) - 1 => out.val.val = 4

\* C6 witness: branch_offset() of a word whose low 24 bits are 0xFFFFFF
C6_Witness ==
    /\ out.op = "branch_offset"
    /\ FieldFrom(raw, 0, 24) = Pow2(24) - 1
    /\ out.val.val = 4

\* the shift bits 4-11 of w describe
ExpectedShift(w) ==
    IF 4 \in w
    THEN [shift |-> "RegisterShift", rs |-> FieldFrom(w, 8, 12),
          typ |-> ShiftNames[FieldFrom(w, 5, 7) + 1]]
    ELSE [shift |-> "ImmediateShift", amount |-> FieldFrom(w, 7, 12),
          typ |-> ShiftNames[FieldFrom(w, 5, 7) + 1]]

\* the operand bits 0-11 and bit 25 of w describe
ExpectedOperand2(w) ==
    IF 25 \in w
    THEN [kind |-> "RotatedImmediate", immediate |-> FieldFrom(w, 0, 8),
          rotate |-> 2 * FieldFrom(w, 8, 12)]
    ELSE [kind |-> "ShiftedRegister", reg |-> FieldFrom(w, 0, 4),
          shift |-> ExpectedShift(w)]

\* the i32 whose bit i is bit (i + r) mod 32 of the 8-bit value imm
RotatedValue(imm, r) ==
    LET bits == {i \in 0..31 : LET j == (i + r) % 32
                               IN  j < 8 /\ (imm \div Pow2(j)) % 2 = 1}
        low  == FieldFrom(bits, 0, 31)
    IN  IF 31 \in bits THEN (low - Pow2(30)) - Pow2(30) ELSE low

\* MOV r0, #1
Word_E3A00001 == Hex(<<14, 3, 10, 0, 0, 0, 0, 1>>)

\* C7: operand2() is RotatedImmediate(bits 0-7, 2 * bits 8-11) when bit 25 is
\* set, the rotate amount even and in 0..30, and decode_rotated_immediate() of
\* it is the immediate rotated right by that amount within 32 bits, read as an
\* i32; when bit 25 is clear it is ShiftedRegister(bits 0-3, shift), shift being
\* RegisterShift(bits 8-11, type bits 5-6) if bit 4 is set and
\* ImmediateShift(bits 7-11, type bits 5-6) otherwise.  0xE3A00001 decodes to
\* format DP, opcode MOV, rd 0 and operand value 1.
C7_Operand2 ==
    /\ out.op = "operand2" =>
           /\ ~out.val.panic
           /\ out.val.val = ExpectedOperand2(raw)
           /\ 25 \in raw => out.val.val.rotate \in {2 * n : n \in 0..15}
    /\ (out.op = "decode_rotated_immediate" /\ out.from = "operand2" /\ 25 \in raw) =>
           /\ out.val.some
           /\ out.val.val = RotatedValue(FieldFrom(raw, 0, 8), 2 * FieldFrom(raw, 8, 12))
    /\ raw = Word_E3A00001 =>
           /\ Decoded => IsDescriptor /\ result.value.fmt = "DP"
           /\ out.op = "opcode" => out.val = "MOV"
           /\ out.op = "rd" => out.val = 0
           /\ (out.op = "decode_rotated_immediate" /\ out.from = "operand2") =>
                  out.val.some /\ out.val.val = 1

\* C7 witness: decode_rotated_immediate() of operand2() with a rotation that
\* carries a 1 into bit 31
C7_Witness ==
    /\ out.op = "decode_rotated_immediate"
    /\ out.from = "operand2"
    /\ 25 \in raw
    /\ FieldFrom(raw, 8, 12) > 0
    /\ out.val.some
    /\ out.val.val < 0

\* C8: register_list() is the strictly ascending list of the indices i in
\* 0..15 whose bit of the word is set, each once, its length the number of set
\* bits among bits 0-15; bits 16-31 do not matter; low 16 bits 0b101 give [0, 2].
C8_RegisterList ==
    out.op = "register_list" =>
        LET list == out.val
        IN  /\ \A i \in 1..(Len(list) - 1) : list[i] < list[i + 1]
            /\ {list[i] : i \in 1..Len(list)} = raw \cap (0..15)
            /\ Len(list) = Cardinality(raw \cap (0..15))
            /\ FieldFrom(raw, 0, 16) = 5 => list = <<0, 2>>

\* C8 witness: register_list() of a word whose low 16 bits are 0b101 and that
\* has bits set above bit 15
C8_Witness ==
    /\ out.op = "register_list"
    /\ FieldFrom(raw, 0, 16) = 5
    /\ raw \cap (16..31) # {}
    /\ out.val = <<0, 2>>

\* C9: rn() is bits 12-15 for MUL_MLA, bits 8-11 for MULL_MLAL, bits 0-3 for BX
\* and bits 16-19 for every other format; rd() is bits 16-19 for MUL_MLA and
\* bits 12-15 for every other format; rm() is bits 0-3; each is in 0..15.
C9_Registers ==
    /\ out.op = "rn" =>
           /\ out.val = (CASE result.value.fmt = "MUL_MLA"   -> FieldFrom(raw, 12, 16)
                           [] result.value.fmt = "MULL_MLAL" -> FieldFrom(raw, 8, 12)
                           [] result.value.fmt = "BX"        -> FieldFrom(raw, 0, 4)
                           [] OTHER                          -> FieldFrom(raw, 16, 20))
           /\ out.val \in 0..15
    /\ out.op = "rd" =>
           /\ out.val = (IF result.value.fmt = "MUL_MLA"
                         THEN FieldFrom(raw, 16, 20) ELSE FieldFrom(raw, 12, 16))
           /\ out.val \in 0..15
    /\ out.op = "rm" => out.val = FieldFrom(raw, 0, 4) /\ out.val \in 0..15

\* C9 witness: rn() of a MULL_MLAL descriptor, where bits 8-11 and bits 16-19
\* differ
C9_Witness ==
    /\ out.op = "rn"
    /\ result.value.fmt = "MULL_MLAL"
    /\ out.val = FieldFrom(raw, 8, 12)
    /\ out.val # FieldFrom(raw, 16, 20)

\* C10: for a word whose condition code is 0-14, try_from returns
\* UnknownInstructionFormat carrying the whole word if and only if bits 26 and
\* 27 are both set; with bits 27:26 equal to 00, 01 or 10 it returns a
\* descriptor.
C10_UnknownIffBits2627 ==
    (Decoded /\ CondCode <= 14) =>
        /\ (IsUnknownFormat /\ result.n = raw) <=> (26 \in raw /\ 27 \in raw)
        /\ ~(26 \in raw /\ 27 \in raw) => IsDescriptor

\* C10 witness: a word with a valid condition code and bits 26 and 27 set was
\* decoded
C10_Witness ==
    /\ Decoded
    /\ CondCode <= 14
    /\ 26 \in raw
    /\ 27 \in raw
    /\ result.tag = "Err"

====
